---- MODULE Spec2Model ----
(***************************************************************************)
(* The feedback store of backend/open_webui/models/feedbacks.py: the       *)
(* "feedback" table, the operations of FeedbackTable on it, and the        *)
(* conversation-memory call that insert_new_feedback makes for a positive  *)
(* rating.  One action per method; the method's caller is sequential: it   *)
(* makes a call, reads the result (the variable call) and returns to idle. *)
(*                                                                         *)
(* Values.  A Python None is None where a mapping or a pydantic model is   *)
(* expected and Null where a scalar is; a dict is a TLA+ function from its *)
(* keys; a rating is "int:1", "int:-1" (numbers) or "str:1" (the string    *)
(* "1"); an id is the number of the uuid4 draw that produced it.           *)
(***************************************************************************)
EXTENDS Integers, Sequences, FiniteSets, TLC

VARIABLES feedback, uuids, clock, call

vars == <<feedback, uuids, clock, call>>

\* Bounds of the model: uuid4 draws, and the largest reading of time.time().
MaxIds == 2
MaxTime == 1

None == [none |-> TRUE]
Null == "None"
EmptyDict == [k \in {} |-> Null]

---------------------------------------------------------------------------
(* Python helpers *)

\* bool(x) of a pydantic model or None: BaseModel defines no __bool__/__len__.
ModelTruthy(m) == m # None

\* bool(x) of a dict or None: an empty dict is falsy.
DictTruthy(d) == d # None /\ DOMAIN d # {}

\* bool(x) of a str or None: the empty string is falsy.
StrTruthy(s) == s # Null /\ s # ""

\* dict.get(key): the value, or None when the key is missing.
Get(d, key) == IF key \in DOMAIN d THEN d[key] ELSE Null

\* BaseModel.model_dump(): the dict of the model's fields; None stays None.
model_dump(m) == IF m = None THEN None ELSE [k \in DOMAIN m |-> m[k]]

---------------------------------------------------------------------------
(* Schema and forms *)

RatingData(rating, model_id) ==
    [rating |-> rating, model_id |-> model_id, sibling_model_ids |-> Null,
     reason |-> Null, comment |-> Null]

SnapshotData(chat) == [chat |-> chat]

FeedbackForm(type, data, meta, snapshot) ==
    [type |-> type, data |-> data, meta |-> meta, snapshot |-> snapshot]

\* The row built by insert_new_feedback: the generated id, the caller, version 0,
\* the dumped form, and the two readings of the clock.
Feedback(id, user_id, form_data, t1, t2) ==
    [id |-> id, user_id |-> user_id, version |-> 0, type |-> form_data.type,
     data |-> model_dump(form_data.data), meta |-> form_data.meta,
     snapshot |-> model_dump(form_data.snapshot),
     created_at |-> t1, updated_at |-> t2]

\* FeedbackModel.model_validate(row): the view of a row, field by field.
FeedbackModel(row) ==
    [id |-> row.id, user_id |-> row.user_id, version |-> row.version,
     type |-> row.type, data |-> row.data, meta |-> row.meta,
     snapshot |-> row.snapshot, created_at |-> row.created_at,
     updated_at |-> row.updated_at]

---------------------------------------------------------------------------
(* The conversation-memory side effect of insert_new_feedback *)

\* The guard of the side effect.
PositiveFeedback(form_data) ==
    /\ ModelTruthy(form_data.data)
    /\ form_data.data.rating = "int:1"
    /\ ModelTruthy(form_data.snapshot)
    /\ DictTruthy(form_data.snapshot.chat)
    /\ DictTruthy(form_data.meta)
    /\ StrTruthy(Get(form_data.meta, "message_id"))

KeyError == [kind |-> "KeyError"]
NoCall == [kind |-> "none"]

AddText(text, collection_name, metadata) ==
    [kind |-> "add_text", text |-> text, collection_name |-> collection_name,
     metadata |-> metadata]

\* What the block after the commit does: nothing, a KeyError raised by a
\* subscript, or one pipe.add_text call.
ConversationMemory(user_id, form_data) ==
    IF ~PositiveFeedback(form_data) THEN NoCall
    ELSE IF "history" \notin DOMAIN form_data.snapshot.chat THEN KeyError
    ELSE LET chat_history == form_data.snapshot.chat["history"]
             message_id == form_data.meta["message_id"]
         IN  IF "messages" \notin DOMAIN chat_history THEN KeyError
             ELSE IF message_id \notin DOMAIN chat_history["messages"] THEN NoCall
             ELSE LET messages == chat_history["messages"]
                      response_message == messages[message_id]
                      user_message_id == Get(response_message, "parentId")
                  IN  IF ~(StrTruthy(user_message_id)
                           /\ user_message_id \in DOMAIN messages)
                      THEN NoCall
                      ELSE LET user_message == messages[user_message_id]
                           IN  IF \/ "content" \notin DOMAIN user_message
                                  \/ "content" \notin DOMAIN response_message
                               THEN KeyError
                               ELSE AddText(
                                      "User: " \o user_message["content"]
                                        \o "\nAssistant: "
                                        \o response_message["content"],
                                      "conversation_memory_" \o user_id,
                                      [source |-> "feedback",
                                       message_id |-> message_id])

---------------------------------------------------------------------------
(* The caller *)

Idle == [op |-> "idle"]

Init ==
    /\ feedback = {}
    /\ uuids = 0
    /\ clock = 0
    /\ call = Idle

\* db.add / db.commit / db.refresh: where the engine raises, if it does.  The row
\* is in the table once the commit has succeeded.  A call records in exc the
\* exception its except clause caught: the engine's, by the statement that raised
\* it, a KeyError, or the pipeline's.
DbOutcomes == {"ok", "add", "commit", "refresh"}
Committed(db) == db \in {"ok", "refresh"}

insert_new_feedback(user_id, form_data, db, pipe) ==
    /\ call = Idle
    /\ uuids < MaxIds
    /\ \E t1 \in clock..MaxTime : \E t2 \in t1..MaxTime :
         LET id == uuids + 1
             result == Feedback(id, user_id, form_data, t1, t2)
             memory == IF db = "ok" THEN ConversationMemory(user_id, form_data)
                       ELSE NoCall
             exc == IF db # "ok" THEN db
                    ELSE IF memory = KeyError THEN "KeyError"
                    ELSE IF memory.kind = "add_text" /\ pipe = "raise"
                         THEN "pipeline"
                    ELSE "none"
         IN  /\ feedback' = IF Committed(db) THEN feedback \cup {result}
                            ELSE feedback
             /\ uuids' = id
             /\ clock' = t2
             /\ call' = [op |-> "insert_new_feedback", id |-> id,
                         user_id |-> user_id, form_data |-> form_data,
                         before |-> feedback, exc |-> exc,
                         sink |-> IF memory.kind = "add_text" THEN <<memory>>
                                  ELSE <<>>,
                         ret |-> IF exc = "none" THEN FeedbackModel(result)
                                 ELSE None]

---------------------------------------------------------------------------
(* Queries *)

\* A query by id that has lost its filter.
QueryByIdUnfiltered(id) == feedback

\* db.query(Feedback).filter_by(id=id)
QueryById(id) == {row \in feedback : row.id = id}

\* A user-scoped query that filters by id alone.
QueryByIdAnyOwner(id, user_id) == {row \in feedback : row.id = id}

\* db.query(Feedback).filter_by(id=id, user_id=user_id)
QueryByIdAndUserId(id, user_id) ==
    {row \in feedback : row.id = id /\ row.user_id = user_id}

\* db.query(Feedback).filter_by(type=type)
QueryByType(type) == {row \in feedback : row.type = type}

\* A query by user that has lost its filter.
QueryByUserIdUnfiltered(user_id) == feedback

\* db.query(Feedback).filter_by(user_id=user_id)
QueryByUserId(user_id) == {row \in feedback : row.user_id = user_id}

\* .first(): a row of the query, or None.
First(rows) == IF rows = {} THEN None ELSE CHOOSE row \in rows : TRUE

\* The rows in ascending order of updated_at.
OrderByUpdatedAtAsc(rows) ==
    {s \in [1..Cardinality(rows) -> rows] :
        /\ \A i, j \in DOMAIN s : i # j => s[i] # s[j]
        /\ \A i \in DOMAIN s : i + 1 \in DOMAIN s =>
              s[i].updated_at <= s[i + 1].updated_at}

\* .order_by(Feedback.updated_at.desc()).all(): the orders the engine may return
\* the rows in; rows with equal updated_at come in any order.
OrderByUpdatedAtDesc(rows) ==
    {s \in [1..Cardinality(rows) -> rows] :
        /\ \A i, j \in DOMAIN s : i # j => s[i] # s[j]
        /\ \A i \in DOMAIN s : i + 1 \in DOMAIN s =>
              s[i].updated_at >= s[i + 1].updated_at}

\* [FeedbackModel.model_validate(feedback) for feedback in ...]
Views(s) == [i \in DOMAIN s |-> FeedbackModel(s[i])]

Read(op, args, ret, exc) ==
    /\ call' = [op |-> op, args |-> args, before |-> feedback, exc |-> exc,
                sink |-> <<>>, ret |-> ret]
    /\ UNCHANGED <<feedback, uuids, clock>>

get_feedback_by_id(id, db) ==
    /\ call = Idle
    /\ LET row == First(QueryById(id))
       IN  Read("get_feedback_by_id", [id |-> id],
                IF db = "ok" /\ row # None THEN FeedbackModel(row) ELSE None,
                IF db = "ok" THEN "none" ELSE "db")

get_feedback_by_id_and_user_id(id, user_id, db) ==
    /\ call = Idle
    /\ LET row == First(QueryByIdAndUserId(id, user_id))
       IN  Read("get_feedback_by_id_and_user_id",
                [id |-> id, user_id |-> user_id],
                IF db = "ok" /\ row # None THEN FeedbackModel(row) ELSE None,
                IF db = "ok" THEN "none" ELSE "db")

get_all_feedbacks ==
    /\ call = Idle
    /\ \E s \in OrderByUpdatedAtDesc(feedback) :
         Read("get_all_feedbacks", [all |-> TRUE], Views(s), "none")

get_feedbacks_by_type(type) ==
    /\ call = Idle
    /\ \E s \in OrderByUpdatedAtDesc(QueryByType(type)) :
         Read("get_feedbacks_by_type", [type |-> type], Views(s), "none")

get_feedbacks_by_user_id(user_id) ==
    /\ call = Idle
    /\ \E s \in OrderByUpdatedAtDesc(QueryByUserId(user_id)) :
         Read("get_feedbacks_by_user_id", [user_id |-> user_id], Views(s), "none")

---------------------------------------------------------------------------
(* Updates *)

\* An update that assigns the three fields whether or not the form supplies them.
ApplyUpdateAssignAll(row, form_data, t) ==
    [row EXCEPT
       !.data = model_dump(form_data.data),
       !.meta = form_data.meta,
       !.snapshot = model_dump(form_data.snapshot),
       !.updated_at = t]

\* The assignments of an update to the loaded row, with t the clock's reading.
ApplyUpdate(row, form_data, t) ==
    [row EXCEPT
       !.data = IF ModelTruthy(form_data.data)
                THEN model_dump(form_data.data) ELSE @,
       !.meta = IF DictTruthy(form_data.meta) THEN form_data.meta ELSE @,
       !.snapshot = IF ModelTruthy(form_data.snapshot)
                    THEN model_dump(form_data.snapshot) ELSE @,
       !.updated_at = t]

\* Both update methods after their query: not found, or assign, commit and return.
Update(op, args, found, form_data) ==
    IF found = None
    THEN /\ call' = [op |-> op, args |-> args, before |-> feedback,
                     exc |-> "none", sink |-> <<>>, ret |-> None]
         /\ UNCHANGED <<feedback, uuids, clock>>
    ELSE \E t \in clock..MaxTime :
           LET updated == ApplyUpdate(found, form_data, t)
           IN  /\ feedback' = (feedback \ {found}) \cup {updated}
               /\ clock' = t
               /\ call' = [op |-> op, args |-> args, before |-> feedback,
                           exc |-> "none", sink |-> <<>>,
                           ret |-> FeedbackModel(updated)]
               /\ UNCHANGED uuids

update_feedback_by_id(id, form_data) ==
    /\ call = Idle
    /\ Update("update_feedback_by_id", [id |-> id, form_data |-> form_data],
              First(QueryById(id)), form_data)

update_feedback_by_id_and_user_id(id, user_id, form_data) ==
    /\ call = Idle
    /\ Update("update_feedback_by_id_and_user_id",
              [id |-> id, user_id |-> user_id, form_data |-> form_data],
              First(QueryByIdAndUserId(id, user_id)), form_data)

---------------------------------------------------------------------------
(* Deletes *)

\* The delete methods after their query: False when it found nothing, else every
\* row found is deleted, the deletion committed, and True returned.
Delete(op, args, rows) ==
    /\ feedback' = feedback \ rows
    /\ call' = [op |-> op, args |-> args, before |-> feedback, exc |-> "none",
                sink |-> <<>>, ret |-> rows # {}]
    /\ UNCHANGED <<uuids, clock>>

\* The rows a single-row delete removes: the first row of its query, if any.
FirstOf(rows) == IF rows = {} THEN {} ELSE {First(rows)}

delete_feedback_by_id(id) ==
    /\ call = Idle
    /\ Delete("delete_feedback_by_id", [id |-> id], FirstOf(QueryById(id)))

delete_feedback_by_id_and_user_id(id, user_id) ==
    /\ call = Idle
    /\ Delete("delete_feedback_by_id_and_user_id",
              [id |-> id, user_id |-> user_id],
              FirstOf(QueryByIdAndUserId(id, user_id)))

delete_feedbacks_by_user_id(user_id) ==
    /\ call = Idle
    /\ Delete("delete_feedbacks_by_user_id", [user_id |-> user_id],
              QueryByUserId(user_id))

delete_all_feedbacks ==
    /\ call = Idle
    /\ Delete("delete_all_feedbacks", [all |-> TRUE], feedback)

\* The caller takes the result; the next call may start.
Return ==
    /\ call # Idle
    /\ call' = Idle
    /\ UNCHANGED <<feedback, uuids, clock>>

---------------------------------------------------------------------------
(* Callers' inputs and the specifications *)

Users == {"u1", "u2"}
Types == {"rating", "comment"}
Ids == 1..MaxIds
PipeOutcomes == {"ok", "raise"}

MetaTags == [tags |-> "t1"]
MetaChat == [chat_id |-> "c1"]
MetaMsg1 == [message_id |-> "msg1"]
MetaMsg2 == [message_id |-> "msg2"]
MetaMsg3 == [message_id |-> "msg3"]

\* The operations over the given users, types and forms.
Step(users, types, forms, updates) ==
    \/ \E u \in users, f \in forms, db \in DbOutcomes, pipe \in PipeOutcomes :
         insert_new_feedback(u, f, db, pipe)
    \/ \E id \in Ids, db \in {"ok", "raise"} : get_feedback_by_id(id, db)
    \/ \E id \in Ids, u \in users, db \in {"ok", "raise"} :
         get_feedback_by_id_and_user_id(id, u, db)
    \/ get_all_feedbacks
    \/ \E t \in types : get_feedbacks_by_type(t)
    \/ \E u \in users : get_feedbacks_by_user_id(u)
    \/ \E id \in Ids, f \in updates : update_feedback_by_id(id, f)
    \/ \E id \in Ids, u \in users, f \in updates :
         update_feedback_by_id_and_user_id(id, u, f)
    \/ \E id \in Ids : delete_feedback_by_id(id)
    \/ \E id \in Ids, u \in users : delete_feedback_by_id_and_user_id(id, u)
    \/ \E u \in users : delete_feedbacks_by_user_id(u)
    \/ delete_all_feedbacks
    \/ Return

\* Two users, two types; creates without payload, updates that write a meta.
StoreForms == {FeedbackForm(t, None, None, None) : t \in Types}
StoreUpdates == {FeedbackForm("rating", None, MetaChat, None)}

Next == Step(Users, Types, StoreForms, StoreUpdates)

Spec == Init /\ [][Next]_vars

\* One user, one type; every record is created with a data, a meta and a
\* snapshot; an update supplies any of a new data, a meta (new or empty) and the
\* snapshot again.
R1 == RatingData("int:1", "m1")
RNeg == RatingData("int:-1", "m1")
RStr == RatingData("str:1", "m1")
SnapshotA == SnapshotData([id |-> "c1"])

UpdateSpecForms == {FeedbackForm("rating", R1, MetaTags, SnapshotA)}
UpdateSpecUpdates ==
    {FeedbackForm("rating", d, m, s) :
        d \in {None, RNeg}, m \in {None, EmptyDict, MetaChat},
        s \in {None, SnapshotA}}

NextUpdate == Step({"u1"}, {"rating"}, UpdateSpecForms, UpdateSpecUpdates)

SpecUpdate == Init /\ [][NextUpdate]_vars

\* Two users, one type; creates around the positive-feedback scenario: the
\* rating, the meta and the snapshot each varied with the other two as in it.
Msg1 == [content |-> "hi", parentId |-> Null]
Msg2 == [content |-> "hello back", parentId |-> "msg1"]
Chat(messages) == [history |-> [messages |-> messages]]
ChatGood == Chat([msg1 |-> Msg1, msg2 |-> Msg2])
ChatNoParent == Chat([msg2 |-> Msg2])
ChatNoContent == Chat([msg1 |-> [parentId |-> Null], msg2 |-> Msg2])
ChatNoMessages == [history |-> [currentId |-> "msg2"]]
ChatNoHistory == [id |-> "c1"]

MemoryDatas == {None, R1, RNeg, RStr}
MemoryMetas == {None, EmptyDict, MetaChat, MetaMsg1, MetaMsg2, MetaMsg3}
MemorySnapshots ==
    {None} \cup {SnapshotData(c) :
                   c \in {None, EmptyDict, ChatGood, ChatNoParent, ChatNoContent,
                          ChatNoMessages, ChatNoHistory}}

MemoryForms ==
    {FeedbackForm("rating", d, MetaMsg2, SnapshotData(ChatGood)) : d \in MemoryDatas}
    \cup {FeedbackForm("rating", R1, m, SnapshotData(ChatGood)) : m \in MemoryMetas}
    \cup {FeedbackForm("rating", R1, MetaMsg2, s) : s \in MemorySnapshots}
MemoryUpdates == {FeedbackForm("rating", R1, MetaMsg2, SnapshotData(ChatGood))}

NextMemory == Step(Users, {"rating"}, MemoryForms, MemoryUpdates)

SpecMemory == Init /\ [][NextMemory]_vars

---------------------------------------------------------------------------
(* What the claims speak of, read off the last call *)

IsInsert == call.op = "insert_new_feedback"
IsUpdate == call.op \in {"update_feedback_by_id", "update_feedback_by_id_and_user_id"}

\* The rows of the table before the call with the call's id.
RowsWithId == {row \in call.before : row.id = call.args.id}

\* The rows before the call with the call's id that another user owns.
ForeignRows == {row \in RowsWithId : row.user_id # call.args.user_id}

\* The row an update was aimed at, before the call.
Targeted ==
    IF call.op = "update_feedback_by_id_and_user_id"
    THEN RowsWithId \ ForeignRows
    ELSE RowsWithId

\* The row this create committed, if it did.
Persisted == {row \in feedback : row.id = call.id}

\* The message mapping of a form's snapshot.chat.history.messages, or the empty
\* mapping where the snapshot has none.
MessagesOf(form_data) ==
    IF /\ form_data.snapshot # None
       /\ form_data.snapshot.chat # None
       /\ "history" \in DOMAIN form_data.snapshot.chat
       /\ "messages" \in DOMAIN form_data.snapshot.chat.history
    THEN form_data.snapshot.chat.history.messages
    ELSE EmptyDict

\* The conditions C6 gives for the sink to be invoked.
Qualifies(form_data) ==
    /\ form_data.data # None
    /\ form_data.data.rating = "int:1"
    /\ form_data.snapshot # None
    /\ form_data.snapshot.chat # None
    /\ form_data.meta # None
    /\ "message_id" \in DOMAIN form_data.meta
    /\ LET messages == MessagesOf(form_data)
           m == form_data.meta.message_id
       IN  /\ m \in DOMAIN messages
           /\ "parentId" \in DOMAIN messages[m]
           /\ messages[m].parentId \in DOMAIN messages

\* The call C6 says the sink receives.
ExpectedCall(user_id, form_data) ==
    LET messages == MessagesOf(form_data)
        m == form_data.meta.message_id
        p == messages[m].parentId
    IN  [kind |-> "add_text",
         text |-> "User: " \o messages[p].content \o "\nAssistant: "
                    \o messages[m].content,
         collection_name |-> "conversation_memory_" \o user_id,
         metadata |-> [source |-> "feedback", message_id |-> m]]

HasContents(form_data) ==
    LET messages == MessagesOf(form_data)
        m == form_data.meta.message_id
    IN  /\ "content" \in DOMAIN messages[m]
        /\ "content" \in DOMAIN messages[messages[m].parentId]

---------------------------------------------------------------------------
(* The claims *)

\* C1: once a create has committed its record, a failure of the conversation-memory
\* side effect (the sink raising, or the excerpt extraction failing on the
\* snapshot's shape) does not change the outcome: create returns the view of the
\* persisted record and the record is in the store.
C1_SideEffectFailureIsolated ==
    (IsInsert /\ call.exc \in {"KeyError", "pipeline"}) =>
        /\ Persisted # {}
        /\ \A row \in Persisted : call.ret = FeedbackModel(row)

\* C2: whenever create returns an absent result, the store is the same as before
\* the call: no record of that call is visible.
C2_AbsentResultLeavesNoRecord ==
    (IsInsert /\ call.ret = None) => feedback = call.before

\* C3: for a record owned by another user, the user-scoped get and update return
\* absent and the user-scoped delete returns false, the store (the record's
\* updated_at included) is unchanged, and these are the results for an id that
\* is not in the store at all.
C3_OwnershipIsolation ==
    /\ (/\ call.op = "get_feedback_by_id_and_user_id"
        /\ (ForeignRows # {} \/ RowsWithId = {}))
         => (call.ret = None /\ feedback = call.before)
    /\ (/\ call.op = "update_feedback_by_id_and_user_id"
        /\ (ForeignRows # {} \/ RowsWithId = {}))
         => (call.ret = None /\ feedback = call.before)
    /\ (/\ call.op = "delete_feedback_by_id_and_user_id"
        /\ (ForeignRows # {} \/ RowsWithId = {}))
         => (call.ret = FALSE /\ feedback = call.before)

\* C3's case: another user's update, with a meta to write, aimed at a stored record
\* at a time when the clock has moved past the record's updated_at.
C3_Witness ==
    /\ call.op = "update_feedback_by_id_and_user_id"
    /\ ForeignRows # {}
    /\ call.args.form_data.meta = MetaChat
    /\ \E row \in ForeignRows : row.meta # MetaChat /\ row.updated_at < clock

\* C4: an update changes, on the targeted record, only those of data, meta and
\* snapshot that the form supplies, and updated_at; id, user_id, version, type and
\* created_at keep their values; every other record is unchanged.
C4_UpdateFrame ==
    IsUpdate =>
      \A old \in Targeted :
        \E new \in feedback :
          /\ new.id = old.id
          /\ new.user_id = old.user_id
          /\ new.version = old.version
          /\ new.type = old.type
          /\ new.created_at = old.created_at
          /\ call.args.form_data.data = None => new.data = old.data
          /\ call.args.form_data.meta = None => new.meta = old.meta
          /\ call.args.form_data.snapshot = None => new.snapshot = old.snapshot
          /\ feedback \ {new} = call.before \ {old}

\* C4's case: an update that supplies only a meta, on a record that holds a data
\* and a snapshot, with a second record in the store.
C4_Witness ==
    /\ IsUpdate
    /\ call.args.form_data.data = None
    /\ call.args.form_data.snapshot = None
    /\ call.args.form_data.meta = MetaChat
    /\ Cardinality(call.before) = 2
    /\ \E old \in Targeted :
         old.data = RNeg /\ old.snapshot # None /\ old.meta = MetaTags

\* C5: on an update of an existing record, each of data, meta and snapshot that the
\* form supplies (any value other than None, an empty mapping included) is the
\* stored field afterwards, and the returned view is the stored record.
C5_SuppliedFieldsReplaced ==
    IsUpdate =>
      \A old \in Targeted :
        \E new \in feedback :
          /\ new.id = old.id
          /\ call.ret = FeedbackModel(new)
          /\ call.args.form_data.data # None =>
               new.data = call.args.form_data.data
          /\ call.args.form_data.meta # None =>
               new.meta = call.args.form_data.meta
          /\ call.args.form_data.snapshot # None =>
               new.snapshot = call.args.form_data.snapshot

\* C6: a create invokes the sink exactly once, with the excerpt, the user's
\* collection and the metadata, when the record was persisted and the form
\* qualifies; in every other case it does not invoke it and, if the record was
\* persisted, returns it; no other operation invokes the sink.
C6_SinkInvokedExactlyWhenQualifying ==
    /\ IsInsert =>
         IF Persisted # {} /\ Qualifies(call.form_data)
         THEN /\ Len(call.sink) = 1
              /\ HasContents(call.form_data) =>
                   call.sink[1] = ExpectedCall(call.user_id, call.form_data)
         ELSE /\ call.sink = <<>>
              /\ \A row \in Persisted : call.ret = FeedbackModel(row)
    /\ (call # Idle /\ ~IsInsert) => call.sink = <<>>

\* C7: a created record has created_at = updated_at whatever the two readings of
\* the clock; every stored record has created_at <= updated_at; an update leaves
\* updated_at no smaller than it was and created_at as it was.
C7_Timestamps ==
    /\ (IsInsert /\ call.ret # None) =>
         call.ret.created_at = call.ret.updated_at
    /\ \A row \in feedback : row.created_at <= row.updated_at
    /\ IsUpdate =>
         \A old \in Targeted :
           \E new \in feedback :
             /\ new.id = old.id
             /\ new.updated_at >= old.updated_at
             /\ new.created_at = old.created_at

\* C8: delete_feedbacks_by_user_id returns false and changes nothing when the user
\* owns no record; otherwise it returns true, none of the user's records remains
\* and every other record is present and unchanged.  delete_all_feedbacks returns
\* false on an empty store, and otherwise true, leaving the store empty.
C8_BulkDeletes ==
    /\ call.op = "delete_feedbacks_by_user_id" =>
         LET owned == {row \in call.before : row.user_id = call.args.user_id}
         IN  IF owned = {}
             THEN call.ret = FALSE /\ feedback = call.before
             ELSE /\ call.ret = TRUE
                  /\ \A row \in feedback : row.user_id # call.args.user_id
                  /\ feedback = call.before \ owned
    /\ call.op = "delete_all_feedbacks" =>
         /\ call.ret = (call.before # {})
         /\ feedback = {}

\* C8's case: a user's records are deleted while another user's record is stored.
C8_Witness ==
    /\ call.op = "delete_feedbacks_by_user_id"
    /\ \E row \in call.before : row.user_id = call.args.user_id
    /\ \E row \in call.before : row.user_id # call.args.user_id
    /\ call.ret = TRUE

\* C9: for an id that is not in the store, get_feedback_by_id and
\* update_feedback_by_id return absent and delete_feedback_by_id returns false,
\* without raising and without changing the store; for an id that is in the store,
\* delete_feedback_by_id returns true and removes that record only.
C9_MissingRecordIsNegativeResult ==
    /\ (call.op = "get_feedback_by_id" /\ RowsWithId = {}) =>
         (call.ret = None /\ feedback = call.before)
    /\ (call.op = "update_feedback_by_id" /\ RowsWithId = {}) =>
         (call.ret = None /\ call.exc = "none" /\ feedback = call.before)
    /\ call.op = "delete_feedback_by_id" =>
         IF RowsWithId = {}
         THEN call.ret = FALSE /\ call.exc = "none" /\ feedback = call.before
         ELSE call.ret = TRUE /\ feedback = call.before \ RowsWithId

\* C9's case: an update, with a meta to write, of an id that is not in a store
\* that holds a record.
C9_Witness ==
    /\ call.op = "update_feedback_by_id"
    /\ RowsWithId = {}
    /\ call.before # {}
    /\ call.args.form_data.meta = MetaChat

\* The records a list operation is to return.
Listed ==
    IF call.op = "get_feedbacks_by_type"
    THEN {row \in feedback : row.type = call.args.type}
    ELSE IF call.op = "get_feedbacks_by_user_id"
    THEN {row \in feedback : row.user_id = call.args.user_id}
    ELSE feedback

\* C10: each list operation returns exactly the records of the store that match it
\* (all, those of the type, those of the user), each once, with updated_at
\* non-increasing from first to last.
C10_ListsCompleteAndOrdered ==
    call.op \in {"get_all_feedbacks", "get_feedbacks_by_type",
                 "get_feedbacks_by_user_id"} =>
      /\ {call.ret[i] : i \in DOMAIN call.ret} = {FeedbackModel(row) : row \in Listed}
      /\ Len(call.ret) = Cardinality(Listed)
      /\ \A i, j \in DOMAIN call.ret :
           i < j => call.ret[i].updated_at >= call.ret[j].updated_at

\* C10's case: a list of two records, the one created first updated after the other
\* was created, so that it comes first.
C10_Witness ==
    /\ call.op = "get_all_feedbacks"
    /\ Len(call.ret) = 2
    /\ call.ret[1].id < call.ret[2].id
    /\ call.ret[1].updated_at > call.ret[2].updated_at

====
